---- MODULE Spec2Model ----
(***************************************************************************)
(* WakeGuard Web (wakeguard-web/app.js): the drowsiness decision state     *)
(* machine, the audio cue, the rate-limited SMS notifier and the session   *)
(* start/stop handlers, as one state machine over the script's globals.    *)
(*                                                                         *)
(* Every action is one run-to-completion callback of the browser's event   *)
(* loop (a click handler, a detector result, a timer, a fetch response).   *)
(* Times are milliseconds as returned by Date.now().  Landmark coordinates *)
(* are on an integer grid; the Eye Aspect Ratio is kept as an exact        *)
(* fraction, with IEEE-754's Infinity and NaN for a zero denominator.      *)
(***************************************************************************)
EXTENDS Integers, Sequences, FiniteSets, TLC

\* ------------------------------------------------------------- CONFIG
\* EAR_THRESHOLD: 0.22, kept as the fraction 22/100
EAR_THRESHOLD_NUM == 22
EAR_THRESHOLD_DEN == 100
CONSEC_FRAMES_THRESHOLD == 20
SMS_COOLDOWN_MS == 60000

\* ------------------------------------------------------------- bounds
\* closedEyeCounter is unbounded in the script; frames that would push it
\* past MaxCounter are not fed.
MaxCounter == 21
\* number of clock advances
MaxTicks == 1
\* SMS requests awaiting their response at once
MaxPending == 1
\* SMS requests awaiting their response at once, in SpecSms
MaxInFlight == 2
\* Camera objects alive at once (starting, started, or stopped with the
\* result of a frame still to come)
MaxCameras == 1
\* digits of a recipient typed into the settings panel
MaxDigits == 11
\* auto-close timers of the settings panel pending at once
MaxTimers == 1
\* keydown events that bring typedKeys no closer to the secret code
MaxStrays == 2
\* Camera objects alive at once in SpecSessions
MaxStarts == 2
\* the value closedEyeCounter may reach in SpecSessions
MaxSessionFrames == 2

\* The clock advances by one cooldown at a time: handlers run at the same
\* reading of the clock (0 ms apart), one cooldown apart, or more.
ClockStep == SMS_COOLDOWN_MS
\* Date.now() when the page is loaded: milliseconds since 1970, far more
\* than one cooldown after lastSmsTime's initial 0.
PageLoadTime == 2 * SMS_COOLDOWN_MS

VARIABLES
    \* script globals
    faceMesh,          \* BOOLEAN: faceMesh !== null
    camera,            \* the state of the Camera the global refers to
    orphans,           \* the Cameras the global no longer refers to
    isRunning,
    closedEyeCounter,
    alarmOn,
    lastSmsTime,
    audioContext,      \* BOOLEAN: audioContext !== null
    alarmOscillator,   \* BOOLEAN: alarmOscillator !== null
    alarmInterval,     \* BOOLEAN: alarmInterval !== null (timer scheduled)
    beepOn,            \* the interval callback's closure variable
    \* DOM
    statusText,
    startBtnDisabled,
    stopBtnDisabled,
    \* environment
    now,               \* Date.now()
    ticks,             \* clock advances so far
    pendingSms,        \* fetches awaiting a response: each one's captured `now`
    sounding,          \* oscillators started and not stopped
    timers,            \* interval timers scheduled and not cleared
    \* observation
    ev,                \* the last handler that ran, with the state it found
    run,               \* the current run of consecutive low-EAR face frames
    smsLog,            \* the sendSmsAlert call of the last handler
    \* secret settings panel (strings are sequences of characters)
    typedKeys,
    settingsModal,     \* BOOLEAN: settingsModal has class 'active'
    smsRecipientInput, \* smsRecipientInput.value
    SMS_RECIPIENT,     \* CONFIG.SMS_RECIPIENT
    localStorage,      \* item 'wakeguard_sms_recipient'; << >> when absent
    settingsStatus,    \* settingsStatus.className: "", "error" or "success"
    closeTimers,       \* setTimeout(closeSettings, 2000) calls not yet run
    \* observation of the panel
    streak,            \* how many keys of the secret code the last events typed
    strays             \* keydown events that brought typedKeys no closer

panelVars == << typedKeys, settingsModal, smsRecipientInput, SMS_RECIPIENT,
                localStorage, settingsStatus, closeTimers, streak, strays >>

detectionVars ==
    << faceMesh, camera, orphans, isRunning, closedEyeCounter, alarmOn,
       lastSmsTime, audioContext, alarmOscillator, alarmInterval, beepOn,
       statusText, startBtnDisabled, stopBtnDisabled, now, ticks,
       pendingSms, sounding, timers, ev, run, smsLog >>

vars == << detectionVars, panelVars >>

\* ------------------------------------------------------------- geometry
Point(x, y) == [x |-> x, y |-> y]

Abs(n) == IF n < 0 THEN -n ELSE n

\* Math.sqrt(dx^2 + dy^2) on the grid: the integer root, which lies in
\* 0..|dx|+|dy| (exact for the perfect squares the eye shapes below produce).
distance(p1, p2) ==
    LET dx == Abs(p1.x - p2.x)
        dy == Abs(p1.y - p2.y)
        sq == dx * dx + dy * dy
    IN  CHOOSE r \in 0..(dx + dy) : r * r <= sq /\ (r + 1) * (r + 1) > sq

\* A JavaScript number that is a ratio: finite n/d, Infinity or NaN.
Num(n, d) == [kind |-> "num", n |-> n, d |-> d]
Infinity == [kind |-> "inf", n |-> 0, d |-> 1]
NaN == [kind |-> "nan", n |-> 0, d |-> 1]

\* x / y for x >= 0, y >= 0 as IEEE-754 divides
Divide(x, y) ==
    IF y /= 0 THEN Num(x, y)
    ELSE IF x = 0 THEN NaN ELSE Infinity

\* eyeLandmarks is the 6-element array, JavaScript index i at position i+1
calculateEAR(eyeLandmarks) ==
    LET A == distance(eyeLandmarks[2], eyeLandmarks[6])
        B == distance(eyeLandmarks[3], eyeLandmarks[5])
        C == distance(eyeLandmarks[1], eyeLandmarks[4])
    IN  Divide(A + B, 2 * C)

\* (rightEAR + leftEAR) / 2
avgEAR(rightEAR, leftEAR) ==
    IF rightEAR.kind = "nan" \/ leftEAR.kind = "nan" THEN NaN
    ELSE IF rightEAR.kind = "inf" \/ leftEAR.kind = "inf" THEN Infinity
    ELSE Num(rightEAR.n * leftEAR.d + leftEAR.n * rightEAR.d,
             2 * rightEAR.d * leftEAR.d)

\* variant: a comparison that counts an EAR equal to the threshold as low
BelowThreshold_orEqual(ear) ==
    ear.kind = "num" /\ ear.n * EAR_THRESHOLD_DEN <= EAR_THRESHOLD_NUM * ear.d

\* avgEAR < CONFIG.EAR_THRESHOLD (false for Infinity and for NaN)
BelowThreshold(ear) ==
    /\ ear.kind = "num"
    /\ ear.n * EAR_THRESHOLD_DEN < EAR_THRESHOLD_NUM * ear.d

\* An eye of width w and opening h: corners p0, p3 and the lid pairs
\* (p1, p5), (p2, p4).
Eye(w, h) ==
    << Point(0, 0), Point(10, h), Point(20, h),
       Point(w, 0), Point(20, 0), Point(10, 0) >>

\* the eye shapes the detector reports
EyeShapes == {"closed", "threshold", "open", "flat", "point"}

\* getEyeLandmarks: the six landmarks of an eye of the given shape
getEyeLandmarks(shape) ==
    CASE shape = "closed"    -> Eye(50, 5)     \* EAR 0.10
      [] shape = "threshold" -> Eye(50, 11)    \* EAR 0.22
      [] shape = "open"      -> Eye(50, 15)    \* EAR 0.30
      [] shape = "flat"      -> Eye(0, 5)      \* zero width: EAR Infinity
      [] shape = "point"     -> Eye(0, 0)      \* all distances zero: EAR NaN

\* results.multiFaceLandmarks: empty, or one face with its two eyes
NoFace == [face |-> FALSE, rightEye |-> "point", leftEye |-> "point"]
Face(r, l) == [face |-> TRUE, rightEye |-> r, leftEye |-> l]
\* the frames fed: no face, both eyes of each shape, and a wink (one eye
\* closed, one open: average 0.20)
Results ==
    {NoFace} \cup {Face(e, e) : e \in EyeShapes} \cup {Face("closed", "open")}

FrameEAR(results) ==
    avgEAR(calculateEAR(getEyeLandmarks(results.rightEye)),
           calculateEAR(getEyeLandmarks(results.leftEye)))

\* the averaged EAR of every frame, computed once
EarOf == [results \in Results |-> FrameEAR(results)]

\* What a frame is, for the observation: "noface"; "undefined" (an eye of
\* zero width, so no finite EAR); or its averaged EAR against 0.22: "low",
\* "equal" or "above".
FrameKind(results) ==
    LET ear == EarOf[results]
    IN  IF ~results.face THEN "noface"
        ELSE IF ear.kind /= "num" THEN "undefined"
        ELSE IF 100 * ear.n < 22 * ear.d THEN "low"
        ELSE IF 100 * ear.n = 22 * ear.d THEN "equal"
        ELSE "above"

High == {"equal", "above"}


\* ------------------------------------------------------------- program state
\* The script's mutable state as one record, so that the functions below can
\* be composed the way the script's calls nest.  soundStarts and smsCalls
\* count, within one handler, the calls of startAlarmSound that start the
\* interval timer and the calls of sendSmsAlert.
Cur ==
    [ faceMesh |-> faceMesh, camera |-> camera, orphans |-> orphans,
      isRunning |-> isRunning, closedEyeCounter |-> closedEyeCounter,
      alarmOn |-> alarmOn, lastSmsTime |-> lastSmsTime,
      audioContext |-> audioContext, alarmOscillator |-> alarmOscillator,
      alarmInterval |-> alarmInterval, beepOn |-> beepOn,
      statusText |-> statusText, startBtnDisabled |-> startBtnDisabled,
      stopBtnDisabled |-> stopBtnDisabled, pendingSms |-> pendingSms,
      sounding |-> sounding, timers |-> timers, smsLog |-> smsLog,
      soundStarts |-> 0, smsCalls |-> 0 ]

\* smsLog, the sendSmsAlert call (alarm_started event) of the handler that
\* ran last: called (it made one), t (its `now`), last (the lastSmsTime it
\* read), fetched (it issued a request), prevFetch (the `now` of the latest
\* request issued by an earlier handler, -1 if none).
NoCall == [called |-> FALSE, t |-> 0, last |-> 0, fetched |-> FALSE, prevFetch |-> -1]

Fresh(log) ==
    [ NoCall EXCEPT !.prevFetch = IF log.fetched THEN log.t ELSE log.prevFetch ]

\* the state a session or frame handler starts from
Handler == [ Cur EXCEPT !.smsLog = Fresh(@) ]

Commit(s) ==
    /\ faceMesh' = s.faceMesh
    /\ camera' = s.camera
    /\ orphans' = s.orphans
    /\ isRunning' = s.isRunning
    /\ closedEyeCounter' = s.closedEyeCounter
    /\ alarmOn' = s.alarmOn
    /\ lastSmsTime' = s.lastSmsTime
    /\ audioContext' = s.audioContext
    /\ alarmOscillator' = s.alarmOscillator
    /\ alarmInterval' = s.alarmInterval
    /\ beepOn' = s.beepOn
    /\ statusText' = s.statusText
    /\ startBtnDisabled' = s.startBtnDisabled
    /\ stopBtnDisabled' = s.stopBtnDisabled
    /\ pendingSms' = s.pendingSms
    /\ sounding' = s.sounding
    /\ timers' = s.timers
    /\ smsLog' = s.smsLog
    /\ UNCHANGED panelVars

\* ------------------------------------------------------------- web audio alarm
initAudioContext(s) == [s EXCEPT !.audioContext = TRUE]

\* variant: stopAlarmSound that clears the timer and leaves the oscillator
stopAlarmSound_timerOnly(s) ==
    [s EXCEPT !.alarmInterval = FALSE,
              !.timers = IF s.alarmInterval THEN @ - 1 ELSE @,
              !.beepOn = TRUE]

\* clearInterval + stop of the current oscillator.  beepOn lives in the
\* interval callback's closure; with no timer it is kept at TRUE.
stopAlarmSound(s) ==
    [s EXCEPT !.alarmInterval = FALSE,
              !.timers = IF s.alarmInterval THEN @ - 1 ELSE @,
              !.beepOn = TRUE,
              !.alarmOscillator = FALSE,
              !.sounding = IF s.alarmOscillator THEN @ - 1 ELSE @]

startAlarmSound(s) ==
    LET s1 == IF ~s.audioContext THEN initAudioContext(s) ELSE s
    IN  IF ~s1.audioContext THEN s1
        ELSE [stopAlarmSound(s1) EXCEPT !.alarmInterval = TRUE,
                                        !.timers = @ + 1,
                                        !.beepOn = TRUE,
                                        !.soundStarts = @ + 1]

\* the setInterval callback (every 250 ms while the timer is scheduled)
beep(s) ==
    IF s.beepOn
    THEN [s EXCEPT !.alarmOscillator = TRUE,
                   !.sounding = @ + 1,
                   !.beepOn = FALSE]
    ELSE [s EXCEPT !.alarmOscillator = FALSE,
                   !.sounding = IF s.alarmOscillator THEN @ - 1 ELSE @,
                   !.beepOn = TRUE]

\* ------------------------------------------------------------- notifier
\* the sendSmsAlert call of a handler that makes one

LogCall(log, t, last, fetched) ==
    [ called |-> TRUE, t |-> t, last |-> last, fetched |-> fetched,
      prevFetch |-> log.prevFetch ]

\* variant: a cooldown that is still active when exactly SMS_COOLDOWN_MS
\* have elapsed
CooldownActive_orEqual(t, last) == t - last <= SMS_COOLDOWN_MS

\* now - lastSmsTime < CONFIG.SMS_COOLDOWN_MS
CooldownActive(t, last) == t - last < SMS_COOLDOWN_MS

\* sendSmsAlert up to its first await: either the early return, or the fetch
\* is issued and the response is awaited.  t is the call's `now`.
sendSmsAlert(s, t) ==
    IF CooldownActive(t, s.lastSmsTime)
    THEN [s EXCEPT !.smsCalls = @ + 1,
                   !.smsLog = LogCall(@, t, s.lastSmsTime, FALSE)]
    ELSE [s EXCEPT !.smsCalls = @ + 1,
                   !.smsLog = LogCall(@, t, s.lastSmsTime, TRUE),
                   !.pendingSms = Append(@, t)]

\* sendSmsAlert after the await: the response of the request issued at t
\* variant: a response handler that records the send whatever the outcome
smsResponse_anyOutcome(s, t, outcome) == [s EXCEPT !.lastSmsTime = t]

smsResponse(s, t, outcome) ==
    IF outcome = "ok" THEN [s EXCEPT !.lastSmsTime = t] ELSE s

updateStatus(s, status) == [s EXCEPT !.statusText = status]

\* variant: triggerAlarm without its `if (!alarmOn)` guard
triggerAlarm_unguarded(s, t) ==
    sendSmsAlert(startAlarmSound(
                     updateStatus([s EXCEPT !.alarmOn = TRUE], "DROWSINESS DETECTED!")),
                 t)

triggerAlarm(s, t) ==
    IF ~s.alarmOn
    THEN sendSmsAlert(
             startAlarmSound(
                 updateStatus([s EXCEPT !.alarmOn = TRUE], "DROWSINESS DETECTED!")),
             t)
    ELSE s

\* variant: stopAlarm without its stopAlarmSound() call
stopAlarm_flagOnly(s) ==
    IF s.alarmOn THEN updateStatus([s EXCEPT !.alarmOn = FALSE], "Monitoring...")
    ELSE s

stopAlarm(s) ==
    IF s.alarmOn
    THEN stopAlarmSound(updateStatus([s EXCEPT !.alarmOn = FALSE], "Monitoring..."))
    ELSE s

\* ------------------------------------------------------------- frame processing
\* variant: an alarm condition that needs one frame more
AlarmDue_late(counter) == counter > CONSEC_FRAMES_THRESHOLD

\* closedEyeCounter >= CONFIG.CONSEC_FRAMES_THRESHOLD
AlarmDue(counter) == counter >= CONSEC_FRAMES_THRESHOLD

\* the counter update of a face frame
CountFrame(counter, ear) == IF BelowThreshold(ear) THEN counter + 1 ELSE 0

\* variant: a no-face branch that clears the alarm
noFace_stopAlarm(s) == updateStatus(stopAlarm(s), "No face detected")

\* variant: a no-face branch that puts the counter back to 0
noFace_resetCounter(s) ==
    [(IF ~s.alarmOn THEN updateStatus(s, "No face detected") ELSE s)
        EXCEPT !.closedEyeCounter = 0]

\* the no-face branch
noFace(s) == IF ~s.alarmOn THEN updateStatus(s, "No face detected") ELSE s

onResults(s, results, t) ==
    IF results.face
    THEN LET s1 == [s EXCEPT !.closedEyeCounter = CountFrame(@, EarOf[results])]
         IN  IF AlarmDue(s1.closedEyeCounter) THEN triggerAlarm(s1, t) ELSE stopAlarm(s1)
    ELSE noFace(s)

\* ------------------------------------------------------------- session
\* A Camera of the camera utility is
\*   "null"     (the global `camera` before the first Camera is created)
\*   "none"     stopped or failed, with nothing left to do
\*   "starting" start() called, its promise pending
\*   "started"  delivering frames to its onFrame callback
\*   "draining" stopped while its onFrame awaited faceMesh.send: the result
\*              of that frame is still to be delivered
\*   "late"     started, and its onFrame awaits faceMesh.send for a frame
\*              sent before the session was stopped
\* The utility awaits onFrame before it asks for the next frame, so a camera
\* has at most one frame with the detector.  `camera` is the state of the
\* Camera the global refers to; a Camera that `camera = new Camera(...)`
\* replaced lives on in orphans, which counts them by state.
Alive == {"starting", "started", "draining", "late"}

NoOrphans == [st \in Alive |-> 0]

\* A Camera is named by "camera" (the global's) or, for an orphan, by its state.
Who == {"camera"} \cup Alive

StateOf(s, who) ==
    IF who = "camera" THEN s.camera
    ELSE IF s.orphans[who] > 0 THEN who ELSE "none"

Become(s, who, st) ==
    IF who = "camera" THEN [s EXCEPT !.camera = st]
    ELSE IF st \in Alive
         THEN [s EXCEPT !.orphans =
                   [x \in Alive |-> @[x] + (IF x = st THEN 1 ELSE 0)
                                         - (IF x = who THEN 1 ELSE 0)]]
         ELSE [s EXCEPT !.orphans[who] = @ - 1]

AliveCount(s) ==
    (IF s.camera \in Alive THEN 1 ELSE 0)
    + s.orphans["starting"] + s.orphans["started"]
    + s.orphans["draining"] + s.orphans["late"]

\* camera.stop(): a started camera stops delivering frames; one that has
\* not started yet has no stream to stop.
cameraStop(s) ==
    IF s.camera = "started" THEN [s EXCEPT !.camera = "none"]
    ELSE IF s.camera = "late" THEN [s EXCEPT !.camera = "draining"]
    ELSE s

\* variant: an onFrame that sends no frame while an SMS request is pending
FrameSent_afterResponse(s, who) ==
    /\ s.pendingSms = << >>
    /\ \/ StateOf(s, who) = "started" /\ s.isRunning
       \/ StateOf(s, who) \in {"draining", "late"}

\* onFrame of a camera: `if (isRunning) await faceMesh.send(...)`.  The
\* detector answers a frame that was sent, whatever happens in between.
FrameSent(s, who) ==
    \/ StateOf(s, who) = "started" /\ s.isRunning
    \/ StateOf(s, who) \in {"draining", "late"}

\* onFrame returns once faceMesh.send has delivered the result
frameDone(s, who) ==
    Become(s, who, IF StateOf(s, who) = "draining" THEN "none" ELSE "started")

\* The cameras whose onFrame may await faceMesh.send at some moment: any of
\* the started ones while isRunning.  F.camera: the global's does;
\* F.orphans: so many of the started orphans do.
Awaiting(s) ==
    [ camera : IF s.camera = "started" /\ s.isRunning THEN BOOLEAN ELSE {FALSE},
      orphans : IF s.isRunning THEN 0..s.orphans["started"] ELSE {0} ]

awaitingSend(s, F) ==
    [s EXCEPT !.camera = IF F.camera THEN "late" ELSE @,
              !.orphans["started"] = @ - F.orphans,
              !.orphans["late"] = @ + F.orphans]

\* variant: stopDetection without `closedEyeCounter = 0`
stopDetection_keepCounter(s) ==
    LET s1 == cameraStop([s EXCEPT !.isRunning = FALSE])
    IN  updateStatus([stopAlarm(s1) EXCEPT !.startBtnDisabled = FALSE,
                                           !.stopBtnDisabled = TRUE],
                     "Ready - Click Start")

\* variant: stopDetection that also puts lastSmsTime back to 0
stopDetection_baseline(s) ==
    LET s1 == cameraStop([s EXCEPT !.isRunning = FALSE])
        s2 == [stopAlarm(s1) EXCEPT !.closedEyeCounter = 0, !.lastSmsTime = 0]
    IN  updateStatus([s2 EXCEPT !.startBtnDisabled = FALSE,
                                !.stopBtnDisabled = TRUE],
                     "Ready - Click Start")

stopDetection(s) ==
    LET s1 == cameraStop([s EXCEPT !.isRunning = FALSE])
        s2 == [stopAlarm(s1) EXCEPT !.closedEyeCounter = 0]
    IN  updateStatus([s2 EXCEPT !.startBtnDisabled = FALSE,
                                !.stopBtnDisabled = TRUE],
                     "Ready - Click Start")

\* startDetection up to `await camera.start()`
startDetectionBegin(s) ==
    LET s1 == initAudioContext(updateStatus(s, "Starting camera..."))
    IN  [s1 EXCEPT !.faceMesh = TRUE,
                   !.camera = "starting",
                   !.orphans = IF s.camera \in Alive
                               THEN [@ EXCEPT ![s.camera] = @ + 1] ELSE @]

\* startDetection when initializeFaceMesh throws: the catch block
startDetectionMeshFails(s) ==
    updateStatus(initAudioContext(updateStatus(s, "Starting camera...")),
                 "Camera access denied")

\* startDetection after `await camera.start()` of the Camera it created
\* resolved
startDetectionResume(s, who) ==
    updateStatus([Become(s, who, "started") EXCEPT
                           !.isRunning = TRUE,
                           !.startBtnDisabled = TRUE,
                           !.stopBtnDisabled = FALSE],
                 "Monitoring...")

\* startDetection when `await camera.start()` of the Camera it created
\* rejected
startDetectionCatch(s, who) ==
    updateStatus(Become(s, who, "none"), "Camera access denied")

\* ------------------------------------------------------------- secret settings panel
SECRET_CODE == << "p", "a", "s", "h", "a", "1", "2", "3" >>

\* CONFIG.SMS_RECIPIENT as shipped
DefaultRecipient ==
    << "+", "9", "1", "7", "7", "8", "0", "6", "4", "3", "8", "6", "2" >>

\* newRecipient.length < 10
MinRecipientLength == 10

\* toLowerCase, on the characters the keys below are made of
LowerChar(c) ==
    CASE c = "A" -> "a" [] c = "E" -> "e" [] c = "H" -> "h" [] c = "P" -> "p"
      [] c = "S" -> "s" [] c = "U" -> "u" [] OTHER -> c

toLowerCase(str) == [i \in 1..Len(str) |-> LowerChar(str[i])]

\* str.slice(-n)
sliceLast(str, n) ==
    IF Len(str) > n THEN SubSeq(str, Len(str) - n + 1, Len(str)) ELSE str

RECURSIVE trimStart(_)
trimStart(str) ==
    IF str /= << >> /\ Head(str) = " " THEN trimStart(Tail(str)) ELSE str

RECURSIVE trimEnd(_)
trimEnd(str) ==
    IF str /= << >> /\ str[Len(str)] = " "
    THEN trimEnd(SubSeq(str, 1, Len(str) - 1)) ELSE str

trim(str) == trimEnd(trimStart(str))

startsWith(str, c) == str /= << >> /\ Head(str) = c

Panel ==
    [ typedKeys |-> typedKeys, settingsModal |-> settingsModal,
      smsRecipientInput |-> smsRecipientInput, SMS_RECIPIENT |-> SMS_RECIPIENT,
      localStorage |-> localStorage, settingsStatus |-> settingsStatus,
      closeTimers |-> closeTimers ]

\* the panel's handlers leave the detection state alone
CommitPanel(p) ==
    /\ typedKeys' = p.typedKeys
    /\ settingsModal' = p.settingsModal
    /\ smsRecipientInput' = p.smsRecipientInput
    /\ SMS_RECIPIENT' = p.SMS_RECIPIENT
    /\ localStorage' = p.localStorage
    /\ settingsStatus' = p.settingsStatus
    /\ closeTimers' = p.closeTimers
    /\ UNCHANGED detectionVars

loadSavedSettings(p) ==
    IF p.localStorage /= << >> THEN [p EXCEPT !.SMS_RECIPIENT = p.localStorage]
    ELSE p

openSettings(p) ==
    [p EXCEPT !.settingsModal = TRUE,
              !.smsRecipientInput = p.SMS_RECIPIENT,
              !.settingsStatus = ""]

closeSettings(p) == [p EXCEPT !.settingsModal = FALSE, !.typedKeys = << >>]

\* e.key of the keys pressed: printable keys are one character, the others
\* are named
Key(c) == << c >>
Escape == << "E", "s", "c", "a", "p", "e" >>
ArrowUp == << "A", "r", "r", "o", "w", "U", "p" >>
Shift == << "S", "h", "i", "f", "t" >>

Keys ==
    {Key(c) : c \in {"p", "a", "s", "h", "1", "2", "3", "x", "P"}}
    \cup {Escape, ArrowUp, Shift}

Targets == {"BODY", "INPUT"}

\* the keydown listener that detects the secret code
secretKeydown(p, key, target) ==
    IF target = "INPUT" THEN p
    ELSE LET typed == sliceLast(p.typedKeys \o toLowerCase(key), Len(SECRET_CODE))
         IN  IF typed = SECRET_CODE
             THEN [openSettings(p) EXCEPT !.typedKeys = << >>]
             ELSE [p EXCEPT !.typedKeys = typed]

\* the keydown listener that closes the panel on Escape
escapeKeydown(p, key) ==
    IF key = Escape /\ p.settingsModal THEN closeSettings(p) ELSE p

\* a keydown event runs the listeners in the order they were added
keydown(p, key, target) == escapeKeydown(secretKeydown(p, key, target), key)

\* variant: a save handler that stores the trimmed text as it is
saveSettings_asTyped(p) ==
    LET newRecipient == trim(p.smsRecipientInput)
    IN  IF newRecipient = << >> \/ Len(newRecipient) < MinRecipientLength
        THEN [p EXCEPT !.settingsStatus = "error"]
        ELSE [p EXCEPT !.SMS_RECIPIENT = newRecipient,
                       !.localStorage = newRecipient,
                       !.settingsStatus = "success",
                       !.closeTimers = @ + 1]

\* click on saveSettingsBtn
saveSettings(p) ==
    LET newRecipient == trim(p.smsRecipientInput)
    IN  IF newRecipient = << >> \/ Len(newRecipient) < MinRecipientLength
        THEN [p EXCEPT !.settingsStatus = "error"]
        ELSE LET formattedNumber ==
                     IF startsWith(newRecipient, "+") THEN newRecipient
                     ELSE << "+" >> \o newRecipient
             IN  [p EXCEPT !.SMS_RECIPIENT = formattedNumber,
                           !.localStorage = formattedNumber,
                           !.settingsStatus = "success",
                           !.closeTimers = @ + 1]

\* the page is loaded again: the script starts afresh, localStorage stays
reload(p) ==
    loadSavedSettings([ typedKeys |-> << >>, settingsModal |-> FALSE,
                        smsRecipientInput |-> << >>,
                        SMS_RECIPIENT |-> DefaultRecipient,
                        localStorage |-> p.localStorage,
                        settingsStatus |-> "", closeTimers |-> 0 ])

\* what is typed into smsRecipientInput: blanks, a "+", digits, a letter
Repeat(c, n) == [i \in 1..n |-> c]

RecipientInputs ==
    { Repeat(" ", lead) \o plus \o Repeat("7", digits) \o letter \o Repeat(" ", trail) :
          lead \in 0..1, plus \in {<< >>, << "+" >>}, digits \in 0..MaxDigits,
          letter \in {<< >>, << "x" >>}, trail \in 0..1 }

\* keydown for each key of the secret code in turn, outside the input field
RECURSIVE typeKeys(_, _)
typeKeys(p, keys) ==
    IF keys = << >> THEN p
    ELSE typeKeys(keydown(p, Key(Head(keys)), "BODY"), Tail(keys))

\* how much of the secret code typedKeys ends with
Progress(typed) ==
    CHOOSE k \in 0..Len(SECRET_CODE) :
        /\ k <= Len(typed)
        /\ SubSeq(typed, Len(typed) - k + 1, Len(typed)) = SubSeq(SECRET_CODE, 1, k)
        /\ \A j \in (k + 1)..Len(SECRET_CODE) :
               ~ (/\ j <= Len(typed)
                  /\ SubSeq(typed, Len(typed) - j + 1, Len(typed))
                         = SubSeq(SECRET_CODE, 1, j))

Productive(key, target) ==
    /\ target = "BODY"
    /\ Progress(sliceLast(typedKeys \o toLowerCase(key), Len(SECRET_CODE)))
           > Progress(typedKeys)

\* streak: the greatest k such that the last k events were presses, outside
\* the input field, of the first k keys of the secret code, in either case.
\* After a press of a printable key c it is the longest beginning of the
\* code that the keys counted so far, followed by c, end with.
NextStreak(key, target) ==
    IF target /= "BODY" \/ Len(key) /= 1 THEN 0
    ELSE LET pressed == SubSeq(SECRET_CODE, 1, streak) \o << LowerChar(key[1]) >>
             Fits(k) == /\ k <= Len(pressed)
                        /\ SubSeq(pressed, Len(pressed) - k + 1, Len(pressed))
                               = SubSeq(SECRET_CODE, 1, k)
         IN  CHOOSE k \in 0..Len(SECRET_CODE) :
                 Fits(k) /\ \A j \in (k + 1)..Len(SECRET_CODE) : ~Fits(j)

\* ------------------------------------------------------------- observation
\* ev: the session or frame handler that ran last, the kind of frame it
\* processed, and what it found on entry:
\* alarmOn, whether closedEyeCounter was 0, below the threshold or not, and
\* whether a notification had been sent (lastSmsTime set).
CounterClass(counter) ==
    IF counter = 0 THEN "zero"
    ELSE IF counter < CONSEC_FRAMES_THRESHOLD THEN "below" ELSE "due"

Observe(op, kind) ==
    ev' = [ op |-> op, kind |-> kind, alarmOn |-> alarmOn,
            counter |-> CounterClass(closedEyeCounter),
            sent |-> lastSmsTime > 0 ]

\* run: the low-EAR face frames processed since the last event that was
\* none (another frame, a session stop).  afterHigh: that event was a face
\* frame with an EAR at or above the threshold; base: the run
\* began with the alarm off and the counter at 0; len: the number of frames
\* of a run that began so or follows a frame at or above the threshold (of
\* any other run only whether it has frames: 0 or 1); turnedOn: a frame of
\* the run turned the alarm on; sounds, sms: the audio cue starts and
\* sendSmsAlert calls made by the run's frames.
NoRun(afterHigh) ==
    [ len |-> 0, afterHigh |-> afterHigh, base |-> FALSE, turnedOn |-> FALSE,
      sounds |-> 0, sms |-> 0 ]

ExtendRun(s) ==
    LET base == IF run.len = 0 THEN ~alarmOn /\ closedEyeCounter = 0 ELSE run.base
    IN  [ len |-> IF base \/ run.afterHigh THEN run.len + 1 ELSE 1,
          afterHigh |-> run.afterHigh,
          base |-> base,
          turnedOn |-> run.turnedOn \/ (~alarmOn /\ s.alarmOn),
          sounds |-> run.sounds + s.soundStarts,
          sms |-> run.sms + s.smsCalls ]

\* ------------------------------------------------------------- the state machine
Init ==
    /\ faceMesh = FALSE
    /\ camera = "null"
    /\ orphans = NoOrphans
    /\ isRunning = FALSE
    /\ closedEyeCounter = 0
    /\ alarmOn = FALSE
    /\ lastSmsTime = 0
    /\ audioContext = FALSE
    /\ alarmOscillator = FALSE
    /\ alarmInterval = FALSE
    /\ beepOn = TRUE
    /\ statusText = "Ready - Click Start"
    /\ startBtnDisabled = FALSE
    \* the markup decides whether the stop button starts disabled
    /\ stopBtnDisabled \in BOOLEAN
    /\ now = PageLoadTime
    /\ ticks = 0
    /\ pendingSms = << >>
    /\ sounding = 0
    /\ timers = 0
    /\ ev = [ op |-> "load", kind |-> "none", alarmOn |-> FALSE,
              counter |-> "zero", sent |-> FALSE ]
    /\ run = NoRun(FALSE)
    /\ smsLog = NoCall
    \* the page is loaded with nothing saved
    /\ typedKeys = << >>
    /\ settingsModal = FALSE
    /\ smsRecipientInput = << >>
    /\ SMS_RECIPIENT = DefaultRecipient
    /\ localStorage = << >>
    /\ settingsStatus = ""
    /\ closeTimers = 0
    /\ streak = 0
    /\ strays = 0

\* click on startBtn: startDetection runs up to `await camera.start()`
StartDetectionClick ==
    /\ ~startBtnDisabled
    /\ Commit(startDetectionBegin(Handler))
    /\ Observe("startDetection", "none")
    /\ UNCHANGED << now, ticks, run >>

StartDetection ==
    /\ AliveCount(Cur) < MaxCameras
    /\ StartDetectionClick

\* the click when no Camera of an earlier click is left
StartDetectionAlone ==
    /\ AliveCount(Cur) = 0
    /\ StartDetectionClick

\* click on startBtn when the face-mesh library fails to construct
StartDetectionMeshFails ==
    /\ ~startBtnDisabled
    /\ ~faceMesh
    /\ Commit(startDetectionMeshFails(Handler))
    /\ Observe("startFailed", "none")
    /\ UNCHANGED << now, ticks, run >>

\* camera.start() of a Camera resolves
CameraStarted(who) ==
    /\ StateOf(Cur, who) = "starting"
    /\ Commit(startDetectionResume(Handler, who))
    /\ Observe("started", "none")
    /\ UNCHANGED << now, ticks, run >>

\* camera.start() of a Camera rejects
CameraDenied(who) ==
    /\ StateOf(Cur, who) = "starting"
    /\ Commit(startDetectionCatch(Handler, who))
    /\ Observe("startFailed", "none")
    /\ UNCHANGED << now, ticks, run >>

\* a camera's onFrame sends a frame to the detector, which delivers the
\* result to onResults; then onFrame returns.  (A click between the two is
\* StopDetection's case F.)
OnResultsUpTo(who, results, maxPending) ==
    /\ FrameSent(Cur, who)
    /\ LET s == onResults(frameDone(Handler, who), results, now)
           kind == FrameKind(results)
       IN  /\ s.closedEyeCounter <= MaxCounter
           /\ kind = "low" => run.len < MaxCounter
           /\ Len(s.pendingSms) <= maxPending
           /\ Commit(s)
           /\ run' = IF kind = "low" THEN ExtendRun(s) ELSE NoRun(kind \in High)
           /\ Observe("onResults", kind)
    /\ UNCHANGED << now, ticks >>

OnResults(who, results) == OnResultsUpTo(who, results, MaxPending)

\* click on stopBtn, while the cameras F have a frame with the detector
StopDetection(F) ==
    /\ ~stopBtnDisabled
    /\ Commit(stopDetection(awaitingSend(Handler, F)))
    /\ run' = NoRun(FALSE)
    /\ Observe("stopDetection", "none")
    /\ UNCHANGED << now, ticks >>

\* the 250 ms interval timer fires
BeepTick ==
    /\ alarmInterval
    /\ Commit(beep(Cur))
    /\ UNCHANGED << now, ticks, run, ev >>

\* the response of the i-th pending request arrives: 2xx, another status,
\* or a network error
SmsResponse(i, outcome) ==
    /\ i \in 1..Len(pendingSms)
    /\ LET s == [Cur EXCEPT !.pendingSms =
                     SubSeq(pendingSms, 1, i - 1) \o
                     SubSeq(pendingSms, i + 1, Len(pendingSms))]
       IN  Commit(smsResponse(s, pendingSms[i], outcome))
    /\ UNCHANGED << now, ticks, run, ev >>

\* time passes
Tick ==
    /\ ticks < MaxTicks
    /\ ticks' = ticks + 1
    /\ now' = now + ClockStep
    /\ UNCHANGED << faceMesh, camera, orphans, isRunning, closedEyeCounter,
                    alarmOn, lastSmsTime, audioContext, alarmOscillator,
                    alarmInterval, beepOn, statusText, startBtnDisabled,
                    stopBtnDisabled, pendingSms, sounding, timers, ev, run,
                    smsLog >>
    /\ UNCHANGED panelVars

\* a key is pressed, in the page or in the panel's input field
KeyDown(key, target) ==
    /\ target = "INPUT" => settingsModal
    /\ Productive(key, target) \/ strays < MaxStrays
    /\ strays' = IF Productive(key, target) THEN strays ELSE strays + 1
    /\ streak' = NextStreak(key, target)
    /\ CommitPanel(keydown(Panel, key, target))

\* the secret code is typed, key by key, outside the input field
SecretCodeTyped ==
    /\ CommitPanel(typeKeys(Panel, SECRET_CODE))
    /\ UNCHANGED << streak, strays >>

\* the recipient field is edited
EditRecipient(value) ==
    /\ settingsModal
    /\ CommitPanel([Panel EXCEPT !.smsRecipientInput = value])
    /\ UNCHANGED << streak, strays >>

\* click on saveSettingsBtn
SaveSettings ==
    /\ settingsModal
    /\ LET p == saveSettings(Panel)
       IN  p.closeTimers <= MaxTimers /\ CommitPanel(p)
    /\ UNCHANGED << streak, strays >>

\* click on settingsClose or on the backdrop
CloseSettings ==
    /\ settingsModal
    /\ CommitPanel(closeSettings(Panel))
    /\ streak' = 0
    /\ UNCHANGED strays

\* the timer set by a successful save fires
CloseTimer ==
    /\ closeTimers > 0
    /\ CommitPanel(closeSettings([Panel EXCEPT !.closeTimers = @ - 1]))
    /\ streak' = 0
    /\ UNCHANGED strays

\* the page is loaded again (DOMContentLoaded: loadSavedSettings)
Reload ==
    /\ CommitPanel(reload(Panel))
    /\ streak' = 0
    /\ UNCHANGED strays

Next ==
    \/ StartDetection
    \/ StartDetectionMeshFails
    \/ \E who \in Who : CameraStarted(who)
    \/ \E who \in Who : CameraDenied(who)
    \/ \E who \in Who, results \in Results : OnResults(who, results)
    \/ \E F \in Awaiting(Cur) : StopDetection(F)
    \/ BeepTick
    \/ \E i \in 1..Len(pendingSms), outcome \in {"ok", "notok", "error"} :
           SmsResponse(i, outcome)
    \/ Tick

Spec == Init /\ [][Next]_vars

\* The notifier with several requests in flight: one Camera at a time, up
\* to MaxInFlight requests awaiting their responses.
NextSms ==
    \/ StartDetectionAlone
    \/ StartDetectionMeshFails
    \/ \E who \in Who : CameraStarted(who)
    \/ \E who \in Who : CameraDenied(who)
    \/ \E who \in Who, results \in Results :
           OnResultsUpTo(who, results, MaxInFlight)
    \/ \E F \in Awaiting(Cur) : StopDetection(F)
    \/ BeepTick
    \/ \E i \in 1..Len(pendingSms), outcome \in {"ok", "notok", "error"} :
           SmsResponse(i, outcome)
    \/ Tick

SpecSms == Init /\ [][NextSms]_vars

\* The secret code: key presses and closing of the panel.
NextSecret ==
    \/ \E key \in Keys, target \in Targets : KeyDown(key, target)
    \/ CloseSettings

\* (the detection state plays no part: one of its initial states is taken)
InitPanel == Init /\ stopBtnDisabled

SpecSecret == InitPanel /\ [][NextSecret]_vars

\* The settings panel: opened by the secret code, edited, saved, closed.
NextSettings ==
    \/ SecretCodeTyped
    \/ \E value \in RecipientInputs : EditRecipient(value)
    \/ SaveSettings
    \/ CloseSettings
    \/ CloseTimer
    \/ Reload

SpecSettings == InitPanel /\ [][NextSettings]_vars

\* Overlapping sessions: startBtn stays enabled until camera.start() has
\* resolved, so it can be clicked again while an earlier startDetection is
\* still waiting.
StartDetectionOverlap ==
    /\ AliveCount(Cur) < MaxStarts
    /\ StartDetectionClick

\* a frame of a short run
SessionFrame(who, results) ==
    /\ OnResults(who, results)
    /\ closedEyeCounter' <= MaxSessionFrames

NextSessions ==
    \/ StartDetectionOverlap
    \/ StartDetectionMeshFails
    \/ \E who \in Who : CameraStarted(who)
    \/ \E who \in Who : CameraDenied(who)
    \/ \E who \in Who, results \in Results : SessionFrame(who, results)
    \/ \E F \in Awaiting(Cur) : StopDetection(F)

\* (the page starts with the stop button disabled)
SpecSessions == InitPanel /\ [][NextSessions]_vars

\* ------------------------------------------------------------------ properties
LastFrame(kinds) == ev.op = "onResults" /\ ev.kind \in kinds

\* C1: in a run of consecutive low-EAR face frames that begins with the alarm
\* off and the counter at 0, the alarm is off after each of the first
\* CONSEC_FRAMES_THRESHOLD - 1 frames, and the CONSEC_FRAMES_THRESHOLD-th
\* frame turns it on.
AlarmOnThresholdFrame ==
    run.base =>
        /\ run.len < CONSEC_FRAMES_THRESHOLD => ~alarmOn /\ ~run.turnedOn
        /\ run.len = CONSEC_FRAMES_THRESHOLD => alarmOn /\ run.turnedOn

AlarmOnThresholdFrame_witness ==
    /\ LastFrame({"low"})
    /\ run.base /\ run.len = CONSEC_FRAMES_THRESHOLD
    /\ alarmOn /\ ~ev.alarmOn

\* C2: a face frame whose averaged EAR is at or above the threshold, equal
\* to it included, leaves closedEyeCounter at 0 whatever it was before; the
\* run of low frames that follows it has to reach CONSEC_FRAMES_THRESHOLD
\* frames before the alarm is on.
HighFrameResetsCounter ==
    /\ LastFrame(High) => closedEyeCounter = 0
    /\ run.afterHigh /\ run.len < CONSEC_FRAMES_THRESHOLD => ~alarmOn

HighFrameResetsCounter_witness ==
    /\ LastFrame({"equal"}) /\ ev.counter = "below"
    /\ closedEyeCounter = 0 /\ run.afterHigh

NoFaceResetsCounter ==
    LastFrame({"noface"}) => closedEyeCounter = 0

\* C5: a sendSmsAlert call issues a request only if no request was issued
\* by an alarm_started event less than SMS_COOLDOWN_MS before it.
OneRequestPerCooldown ==
    smsLog.called /\ smsLog.fetched /\ smsLog.prevFetch >= 0 =>
        smsLog.t - smsLog.prevFetch >= SMS_COOLDOWN_MS

\* C6: a face frame whose averaged EAR is at or above the threshold,
\* processed while the alarm is active, leaves the alarm off, the beep timer
\* cleared and no oscillator sounding.
HighFrameStopsAlarm ==
    LastFrame(High) /\ ev.alarmOn =>
        ~alarmOn /\ ~alarmInterval /\ ~alarmOscillator /\ sounding = 0

HighFrameStopsAlarm_witness ==
    LastFrame(High) /\ ev.alarmOn /\ ~alarmOn

\* C7: stopDetection leaves alarmOn false, no beep timer and no oscillator
\* active, closedEyeCounter at 0 and isRunning false.
StopDetectionSilences ==
    ev.op = "stopDetection" =>
        /\ ~alarmOn /\ ~alarmInterval /\ ~alarmOscillator /\ sounding = 0
        /\ closedEyeCounter = 0
        /\ ~isRunning

StopDetectionSilences_witness ==
    /\ ev.op = "stopDetection" /\ ev.alarmOn /\ ev.counter = "due"
    /\ ~alarmOn /\ closedEyeCounter = 0

\* C8 as stated: after stopDetection the counter is 0, the alarm flag is
\* false and lastSmsTime is back at its initial value 0.
StopDetectionBaseline ==
    ev.op = "stopDetection" =>
        closedEyeCounter = 0 /\ ~alarmOn /\ lastSmsTime = 0

\* C8: stopDetection puts the counter at 0 and the alarm flag at false and
\* leaves lastSmsTime as it was, so the cooldown of a notification sent in
\* one session carries over to the next.
StopDetectionKeepsLastSmsTime ==
    [][(\E F \in Awaiting(Cur) : StopDetection(F)) =>
          closedEyeCounter' = 0 /\ ~alarmOn' /\ lastSmsTime' = lastSmsTime]_vars

StopDetectionKeepsLastSmsTime_witness ==
    /\ ev.op = "stopDetection" /\ ev.sent
    /\ lastSmsTime > 0 /\ closedEyeCounter = 0 /\ ~alarmOn

\* C9: within one run of consecutive low-EAR face frames the alarm, once a
\* frame of the run has turned it on, is on after every later frame, and the
\* frames of the run together start the audio cue once and call sendSmsAlert
\* once.
AlarmStartedOncePerRun ==
    /\ run.sounds <= 1 /\ run.sms <= 1
    /\ run.turnedOn => alarmOn /\ run.sounds = 1 /\ run.sms = 1

AlarmStartedOncePerRun_witness ==
    /\ LastFrame({"low"}) /\ ev.alarmOn
    /\ run.base /\ run.turnedOn /\ run.len > CONSEC_FRAMES_THRESHOLD
    /\ alarmOn

\* C10 as stated: sendSmsAlert issues a request exactly when more than
\* SMS_COOLDOWN_MS have elapsed since lastSmsTime.
RequestOnlyAfterCooldown ==
    smsLog.called =>
        (smsLog.fetched <=> smsLog.t - smsLog.last > SMS_COOLDOWN_MS)

\* C10: sendSmsAlert issues a request exactly when at least SMS_COOLDOWN_MS
\* have elapsed since lastSmsTime; it returns without one only when less
\* has.
RequestFromCooldownOn ==
    smsLog.called =>
        (smsLog.fetched <=> smsLog.t - smsLog.last >= SMS_COOLDOWN_MS)

RequestFromCooldownOn_witness ==
    /\ smsLog.called /\ smsLog.fetched
    /\ smsLog.last > 0
    /\ smsLog.t - smsLog.last = SMS_COOLDOWN_MS

\* C11: the arrival of a failed response (a status that is not 2xx, or a
\* network error) issues no new request and changes neither alarmOn,
\* closedEyeCounter, the audio cue nor lastSmsTime.
SmsFailure ==
    \E i \in 1..Len(pendingSms), outcome \in {"notok", "error"} :
        SmsResponse(i, outcome)

FailedSendChangesNothing ==
    [][SmsFailure =>
          /\ Len(pendingSms') = Len(pendingSms) - 1
          /\ alarmOn' = alarmOn /\ closedEyeCounter' = closedEyeCounter
          /\ alarmInterval' = alarmInterval /\ alarmOscillator' = alarmOscillator
          /\ sounding' = sounding
          /\ lastSmsTime' = lastSmsTime]_vars

\* the request of the last handler has been answered, the alarm it started
\* is still on and no send has been recorded
FailedSendChangesNothing_witness ==
    /\ smsLog.called /\ smsLog.fetched /\ pendingSms = << >>
    /\ lastSmsTime = 0
    /\ alarmOn /\ alarmInterval /\ closedEyeCounter >= CONSEC_FRAMES_THRESHOLD

\* C12: onResults does not wait for the response of a pending SMS request:
\* whenever the session runs with the camera started, a frame can be
\* processed, whether or not requests are pending.
FrameCanBeProcessed ==
    ENABLED (\E results \in Results : OnResultsUpTo("camera", results, MaxInFlight))

FramesDoNotWaitForSms ==
    camera = "started" /\ isRunning => FrameCanBeProcessed

\* a later run of frames turned the alarm on again, and issued a second
\* request, while the request of the first alarm is still pending
FramesDoNotWaitForSms_witness ==
    /\ LastFrame({"low"}) /\ ~ev.alarmOn /\ alarmOn
    /\ smsLog.called /\ smsLog.fetched /\ smsLog.prevFetch >= 0
    /\ Len(pendingSms) = 2

\* C13: saving a recipient that is empty after trimming, or has fewer than
\* ten digits, sets the error status and changes neither
\* CONFIG.SMS_RECIPIENT nor the value in localStorage.
Digits == {"0", "1", "2", "3", "4", "5", "6", "7", "8", "9"}

DigitCount(str) == Cardinality({i \in 1..Len(str) : str[i] \in Digits})

InvalidRecipient(str) == trim(str) = << >> \/ DigitCount(trim(str)) < 10

Normalized(str) ==
    IF trim(str)[1] = "+" THEN trim(str) ELSE << "+" >> \o trim(str)

Resaved(stored) == saveSettings([Panel EXCEPT !.smsRecipientInput = stored])

AcceptedRecipientNormalized ==
    [][SaveSettings /\ settingsStatus' = "success" =>
          /\ SMS_RECIPIENT' = localStorage'
          /\ localStorage' = Normalized(smsRecipientInput)
          /\ Resaved(localStorage').settingsStatus = "success"
          /\ Resaved(localStorage').localStorage = localStorage'
          /\ Resaved(localStorage').SMS_RECIPIENT = localStorage']_vars

AcceptedRecipientNormalized_witness ==
    /\ settingsStatus = "success"
    /\ trim(smsRecipientInput) = Repeat("7", MinRecipientLength)
    /\ localStorage = << "+" >> \o Repeat("7", MinRecipientLength)
    /\ SMS_RECIPIENT = localStorage

\* C15: a face frame with an eye of zero horizontal distance (EAR infinite
\* or undefined) leaves closedEyeCounter as it found it: zero, below the
\* threshold or at it.
DegenerateFrameKeepsCounter ==
    LastFrame({"undefined"}) => CounterClass(closedEyeCounter) = ev.counter

\* C16: a key press that completes the secret code, typed key by key in
\* either case outside the input field with no other event in between,
\* opens the settings panel whatever was pressed before; and a key press
\* opens the panel only when it completes the code so typed.
KeyStep == \E key \in Keys, target \in Targets : KeyDown(key, target)

CodeTyped == streak' = Len(SECRET_CODE)

SecretCodeOpensPanel ==
    [][KeyStep =>
          /\ CodeTyped => settingsModal'
          /\ ~settingsModal /\ settingsModal' => CodeTyped]_vars

\* C17: after a startDetection that failed (the face-mesh library failed
\* to construct, or camera.start() rejected) isRunning is false, no started
\* Camera forwards frames to the detector, the start button is enabled, the
\* stop button is disabled and the status reads 'Camera access denied'.
Forwarding == isRunning /\ \E who \in Who : StateOf(Cur, who) = "started"

FailedStartLeavesIdle ==
    ev.op = "startFailed" =>
        /\ ~isRunning
        /\ ~Forwarding
        /\ ~startBtnDisabled
        /\ stopBtnDisabled
        /\ statusText = "Camera access denied"

\* C18: between callbacks alarmOn is true exactly when closedEyeCounter is at
\* or above CONSEC_FRAMES_THRESHOLD.
AlarmIffCounterDue == alarmOn <=> AlarmDue(closedEyeCounter)

\* a no-face frame was processed during an alarm whose notification has been
\* answered
AlarmIffCounterDue_witness ==
    /\ LastFrame({"noface"})
    /\ alarmOn
    /\ AlarmDue(closedEyeCounter)
    /\ lastSmsTime = now
    /\ pendingSms = << >>

\* C19: no step lowers lastSmsTime: each write stores a value at least as
\* large as the one it replaces.
LastSmsTimeNeverDecreases == [][lastSmsTime' >= lastSmsTime]_vars

\* C20: from stopDetection until a startDetection succeeds (isRunning is
\* false) the detection state is at its baseline: closedEyeCounter is 0,
\* alarmOn is false and there is no audio cue, also after the result of a
\* frame sent before the stop has been processed.
StoppedStaysAtBaseline ==
    ~isRunning =>
        /\ closedEyeCounter = 0
        /\ ~alarmOn
        /\ ~alarmInterval
        /\ ~alarmOscillator

\* C21: with an audio context the beep timer is scheduled exactly when
\* alarmOn is true; at most one interval timer is scheduled at any time, and
\* it is the one alarmInterval refers to; while the alarm is off no
\* oscillator is sounding.
AudioCueFollowsAlarm ==
    /\ audioContext => (alarmInterval <=> alarmOn)
    /\ timers = IF alarmInterval THEN 1 ELSE 0
    /\ ~alarmOn => sounding = 0 /\ ~alarmOscillator

\* the alarm is on and its timer has started an oscillator
AudioCueFollowsAlarm_witness ==
    /\ alarmOn /\ audioContext
    /\ alarmInterval /\ timers = 1
    /\ alarmOscillator /\ sounding = 1

\* C22: while a session is running and the alarm is off, the status after a
\* frame with a detected face reads 'Monitoring...', whatever the frame
\* before it was.
FaceFrameShowsMonitoring ==
    LastFrame({"low", "equal", "above", "undefined"}) /\ isRunning /\ ~alarmOn
        => statusText = "Monitoring..."

\* C23: at most one Camera is started (delivering frames to its onFrame
\* callback) at any time, and after stopDetection none is.
StartedCount ==
    (IF camera \in {"started", "late"} THEN 1 ELSE 0)
    + orphans["started"] + orphans["late"]

AtMostOneStartedCamera ==
    /\ StartedCount <= 1
    /\ ev.op = "stopDetection" => StartedCount = 0

====
